---- MODULE Spec2Model ----
(***************************************************************************)
(* Model of the Go rule engine GoGame (src/game_logic.py): board, turn,    *)
(* prisoner counts, the undo history and the ko log, with one action per   *)
(* public method.                                                          *)
(***************************************************************************)
EXTENDS Integers, Sequences, FiniteSets, TLC

\* The constructor argument: GoGame(size).
size == 3

\* Cell codes written by the engine.
EMPTY == 0
BLACK == 1
WHITE == 2

\* Bounds of the model: the validated placements (entries of prev_boards)
\* allowed in the full specification, in the games without undo, and in the
\* games without undo that run one move deeper.
MaxMoves == 3
MaxPlayMoves == 6
MaxKoMoves == 7

Idx == 0 .. (size - 1)
Cells == Idx \X Idx
\* Coordinates a caller may pass: one step outside the grid on either side.
Coords == -1 .. size

Colors == {"black", "white"}

VARIABLES
    board,        \* self.board: [Cells -> {EMPTY, BLACK, WHITE}]
    black_turn,   \* self.black_turn
    prisoners,    \* self.prisoners: [Colors -> Nat] (defaultdict(int))
    history,      \* self.history: sequence of (board, prisoners) snapshots
    prev_boards,  \* self.prev_boards: sequence of boards
    op,           \* the method most recently called
    result,       \* what that call returned: "True", "False", "None" or "Score"
    exit,         \* the return statement place_stone left by, "none" for other calls
    mover,        \* the color to move when place_stone was last called, else "none"
    point,        \* the cell the last place_stone call wrote its stone to, else NoPoint
    run,          \* shape of the call sequence so far (see PlaceStone, UndoMove)
    score,        \* the dict the last call returned if it was calculate_score, else NoScore
    snap_turns,   \* for each snapshot on history, black_turn when it was pushed
    commits       \* per color, the place_stone calls that returned True

engine == <<board, black_turn, prisoners, history, prev_boards>>
vars == <<board, black_turn, prisoners, history, prev_boards, op, result, exit, mover, point, run,
         score, snap_turns, commits>>

EmptyBoard == [p \in Cells |-> EMPTY]
NoPrisoners == [c \in Colors |-> 0]

NoPoint == <<-1, -1>>

\* Scores are counted in half points: the komi of 6.5 is 13 half points.
KomiHalves == 13
NoScore == [black |-> -1, white |-> -1]

PyBool(b) == IF b THEN "True" ELSE "False"

\* The four orthogonal steps tried by has_no_liberties.
Dirs == {<<-1, 0>>, <<1, 0>>, <<0, -1>>, <<0, 1>>}

InBounds(x, y) == 0 <= x /\ x < size /\ 0 <= y /\ y < size

\* Variant of Adj: diagonal neighbours are joined as well.
Adj_with_diagonals ==
    [p \in Cells |-> {q \in Cells : q # p /\ q[1] - p[1] \in {-1, 0, 1}
                                           /\ q[2] - p[2] \in {-1, 0, 1}}]

\* Edges of nx.grid_graph(dim=[size, size]).
Adj == [p \in Cells |-> {q \in Cells : \E d \in Dirs : q = <<p[1] + d[1], p[2] + d[2]>>}]

\* Variant of is_valid_move: only a Black stone counts as occupying a cell.
is_valid_move_black_only(b, col, row) ==
    IF col < 0 \/ col >= size \/ row < 0 \/ row >= size
    THEN FALSE
    ELSE IF b[<<col, row>>] = BLACK
         THEN FALSE
         ELSE TRUE

is_valid_move(b, col, row) ==
    IF col < 0 \/ col >= size \/ row < 0 \/ row >= size
    THEN FALSE
    ELSE IF b[<<col, row>>] # EMPTY
         THEN FALSE
         ELSE TRUE

\* Variant of has_no_liberties: a neighbour off the board counts as a liberty.
has_no_liberties_edge_is_liberty(b, group) ==
    \A p \in group : \A d \in Dirs :
        LET nx == p[1] + d[1]
            ny == p[2] + d[2]
        IN  IF InBounds(nx, ny) THEN b[<<nx, ny>>] # EMPTY ELSE FALSE

has_no_liberties(b, group) ==
    \A p \in group : \A d \in Dirs :
        LET nx == p[1] + d[1]
            ny == p[2] + d[2]
        IN  InBounds(nx, ny) => b[<<nx, ny>>] # EMPTY

RECURSIVE Component(_, _)
Component(S, stones) ==
    LET T == S \cup {q \in stones : \E p \in S : q \in Adj[p]}
    IN  IF T = S THEN S ELSE Component(T, stones)

\* Connected components of the grid graph restricted to the stones of a color.
get_stone_groups(b, color) ==
    LET color_code == IF color = "black" THEN BLACK ELSE WHITE
        stones == {p \in Cells : b[p] = color_code}
    IN  {Component({p}, stones) : p \in stones}

\* Variant of CaptureLoop: one prisoner is counted per captured group.
RECURSIVE CaptureLoop_one_per_group(_, _, _, _)
CaptureLoop_one_per_group(groups, b, pris, self_color) ==
    IF groups = {}
    THEN [board |-> b, prisoners |-> pris]
    ELSE LET group == CHOOSE g \in groups : TRUE
             rest == groups \ {group}
         IN  IF has_no_liberties(b, group)
             THEN CaptureLoop_one_per_group(rest,
                              [p \in Cells |-> IF p \in group THEN EMPTY ELSE b[p]],
                              [pris EXCEPT ![self_color] = @ + 1],
                              self_color)
             ELSE CaptureLoop_one_per_group(rest, b, pris, self_color)

\* The loop of capture_stones over the listed groups: each group is tested on
\* the board as the earlier removals left it.
RECURSIVE CaptureLoop(_, _, _, _)
CaptureLoop(groups, b, pris, self_color) ==
    IF groups = {}
    THEN [board |-> b, prisoners |-> pris]
    ELSE LET group == CHOOSE g \in groups : TRUE
             rest == groups \ {group}
         IN  IF has_no_liberties(b, group)
             THEN CaptureLoop(rest,
                              [p \in Cells |-> IF p \in group THEN EMPTY ELSE b[p]],
                              [pris EXCEPT ![self_color] = @ + Cardinality(group)],
                              self_color)
             ELSE CaptureLoop(rest, b, pris, self_color)

\* Variant of capture_stones: the captured color is credited with the prisoners.
capture_stones_swapped_credit(b, pris, turn) ==
    LET other_color == IF turn THEN "white" ELSE "black"
    IN  CaptureLoop(get_stone_groups(b, other_color), b, pris, other_color)

\* Variant of capture_stones: the mover's own groups left without liberties are
\* removed as well (a suicide rule).
capture_stones_with_suicide(b, pris, turn) ==
    LET self_color == IF turn THEN "black" ELSE "white"
        other_color == IF turn THEN "white" ELSE "black"
        first == CaptureLoop(get_stone_groups(b, other_color), b, pris, self_color)
    IN  CaptureLoop(get_stone_groups(first.board, self_color),
                    first.board, first.prisoners, other_color)

\* Variant of capture_stones: the groups of the mover are examined.
capture_stones_own_groups(b, pris, turn) ==
    LET self_color == IF turn THEN "black" ELSE "white"
    IN  CaptureLoop(get_stone_groups(b, self_color), b, pris, self_color)

capture_stones(b, pris, turn) ==
    LET self_color == IF turn THEN "black" ELSE "white"
        other_color == IF turn THEN "white" ELSE "black"
    IN  CaptureLoop(get_stone_groups(b, other_color), b, pris, self_color)

\* Variant of is_ko_violation: compares with the last entry of the log.
is_ko_violation_last_entry(b, prevs) ==
    IF Len(prevs) >= 2
    THEN b = prevs[Len(prevs)]
    ELSE FALSE

is_ko_violation(b, prevs) ==
    IF Len(prevs) >= 2
    THEN b = prevs[Len(prevs) - 1]
    ELSE FALSE

Init ==
    /\ board = EmptyBoard
    /\ black_turn = TRUE
    /\ prisoners = NoPrisoners
    /\ history = <<>>
    /\ prev_boards = <<>>
    /\ op = "init"
    /\ result = "None"
    /\ exit = "none"
    /\ mover = "none"
    /\ point = NoPoint
    /\ run = "placing"
    /\ score = NoScore
    /\ snap_turns = <<>>
    /\ commits = [c \in Colors |-> 0]

\* The board and prisoner counts when place_stone reaches its ko check.
AfterCaptures(col, row) ==
    capture_stones([board EXCEPT ![<<col, row>>] = IF black_turn THEN BLACK ELSE WHITE],
                   prisoners, black_turn)

\* Variant of place_stone: the snapshots are pushed before validation.
place_stone_snapshot_first(col, row) ==
    /\ op' = "place_stone"
    /\ mover' = IF black_turn THEN "black" ELSE "white"
    /\ point' = IF is_valid_move(board, col, row) THEN <<col, row>> ELSE NoPoint
    /\ history' = Append(history, [board |-> board, prisoners |-> prisoners])
    /\ prev_boards' = Append(prev_boards, board)
    /\ IF ~is_valid_move(board, col, row)
       THEN /\ result' = "False"
            /\ exit' = "invalid"
            /\ UNCHANGED <<board, black_turn, prisoners>>
       ELSE LET cap == AfterCaptures(col, row)
            IN  /\ prisoners' = cap.prisoners
                /\ IF is_ko_violation(cap.board, prev_boards')
                   THEN /\ board' = [cap.board EXCEPT ![<<col, row>>] = EMPTY]
                        /\ black_turn' = black_turn
                        /\ result' = "False"
                        /\ exit' = "ko"
                   ELSE /\ board' = cap.board
                        /\ black_turn' = ~black_turn
                        /\ result' = "True"
                        /\ exit' = "commit"

\* Variant of place_stone: the turn is flipped before the ko check.
place_stone_flip_before_ko(col, row) ==
    /\ op' = "place_stone"
    /\ mover' = IF black_turn THEN "black" ELSE "white"
    /\ point' = IF is_valid_move(board, col, row) THEN <<col, row>> ELSE NoPoint
    /\ IF ~is_valid_move(board, col, row)
       THEN /\ result' = "False"
            /\ exit' = "invalid"
            /\ UNCHANGED engine
       ELSE LET cap == AfterCaptures(col, row)
            IN  /\ history' = Append(history, [board |-> board, prisoners |-> prisoners])
                /\ prev_boards' = Append(prev_boards, board)
                /\ prisoners' = cap.prisoners
                /\ black_turn' = ~black_turn
                /\ IF is_ko_violation(cap.board, prev_boards')
                   THEN /\ board' = [cap.board EXCEPT ![<<col, row>>] = EMPTY]
                        /\ result' = "False"
                        /\ exit' = "ko"
                   ELSE /\ board' = cap.board
                        /\ result' = "True"
                        /\ exit' = "commit"

\* Variant of place_stone: a ko violation restores the whole state the call found.
place_stone_full_rollback(col, row) ==
    /\ op' = "place_stone"
    /\ mover' = IF black_turn THEN "black" ELSE "white"
    /\ point' = IF is_valid_move(board, col, row) THEN <<col, row>> ELSE NoPoint
    /\ IF ~is_valid_move(board, col, row)
       THEN /\ result' = "False"
            /\ exit' = "invalid"
            /\ UNCHANGED engine
       ELSE LET cap == AfterCaptures(col, row)
            IN  IF is_ko_violation(cap.board, Append(prev_boards, board))
                THEN /\ UNCHANGED engine
                     /\ result' = "False"
                     /\ exit' = "ko"
                ELSE /\ history' = Append(history, [board |-> board, prisoners |-> prisoners])
                     /\ prev_boards' = Append(prev_boards, board)
                     /\ prisoners' = cap.prisoners
                     /\ board' = cap.board
                     /\ black_turn' = ~black_turn
                     /\ result' = "True"
                     /\ exit' = "commit"

place_stone(col, row) ==
    /\ op' = "place_stone"
    /\ mover' = IF black_turn THEN "black" ELSE "white"
    /\ point' = IF is_valid_move(board, col, row) THEN <<col, row>> ELSE NoPoint
    /\ IF ~is_valid_move(board, col, row)
       THEN /\ result' = "False"
            /\ exit' = "invalid"
            /\ UNCHANGED engine
       ELSE LET cap == AfterCaptures(col, row)
            IN  /\ history' = Append(history, [board |-> board, prisoners |-> prisoners])
                /\ prev_boards' = Append(prev_boards, board)
                /\ prisoners' = cap.prisoners
                /\ IF is_ko_violation(cap.board, prev_boards')
                   THEN /\ board' = [cap.board EXCEPT ![<<col, row>>] = EMPTY]
                        /\ black_turn' = black_turn
                        /\ result' = "False"
                        /\ exit' = "ko"
                   ELSE /\ board' = cap.board
                        /\ black_turn' = ~black_turn
                        /\ result' = "True"
                        /\ exit' = "commit"

\* Variant of undo_move: the turn is left as it is.
undo_move_no_flip ==
    /\ op' = "undo_move"
    /\ result' = "None"
    /\ exit' = "none"
    /\ mover' = "none"
    /\ point' = NoPoint
    /\ IF history # <<>>
       THEN /\ board' = history[Len(history)].board
            /\ prisoners' = history[Len(history)].prisoners
            /\ history' = SubSeq(history, 1, Len(history) - 1)
            /\ UNCHANGED <<black_turn, prev_boards>>
       ELSE UNCHANGED engine

\* Variant of undo_move: the snapshot is popped but the board is left as it is.
undo_move_keep_board ==
    /\ op' = "undo_move"
    /\ result' = "None"
    /\ exit' = "none"
    /\ mover' = "none"
    /\ point' = NoPoint
    /\ IF history # <<>>
       THEN /\ prisoners' = history[Len(history)].prisoners
            /\ history' = SubSeq(history, 1, Len(history) - 1)
            /\ black_turn' = ~black_turn
            /\ UNCHANGED <<board, prev_boards>>
       ELSE UNCHANGED engine

\* Variant of undo_move: the turn is flipped even when there is nothing to pop.
undo_move_flip_always ==
    /\ op' = "undo_move"
    /\ result' = "None"
    /\ exit' = "none"
    /\ mover' = "none"
    /\ point' = NoPoint
    /\ black_turn' = ~black_turn
    /\ IF history # <<>>
       THEN /\ board' = history[Len(history)].board
            /\ prisoners' = history[Len(history)].prisoners
            /\ history' = SubSeq(history, 1, Len(history) - 1)
            /\ UNCHANGED prev_boards
       ELSE UNCHANGED <<board, prisoners, history, prev_boards>>

undo_move ==
    /\ op' = "undo_move"
    /\ result' = "None"
    /\ exit' = "none"
    /\ mover' = "none"
    /\ point' = NoPoint
    /\ IF history # <<>>
       THEN /\ board' = history[Len(history)].board
            /\ prisoners' = history[Len(history)].prisoners
            /\ history' = SubSeq(history, 1, Len(history) - 1)
            /\ black_turn' = ~black_turn
            /\ UNCHANGED prev_boards
       ELSE UNCHANGED engine

IsValidMove(col, row) ==
    /\ op' = "is_valid_move"
    /\ result' = PyBool(is_valid_move(board, col, row))
    /\ exit' = "none"
    /\ mover' = "none"
    /\ point' = NoPoint
    /\ UNCHANGED engine

\* Variant of calculate_score: each color is scored with the other's prisoners.
calculate_score_swapped(pris) ==
    LET black_score == 2 * pris["white"]
        white_score == 2 * pris["black"] + KomiHalves
    IN  [black |-> black_score, white |-> white_score]

calculate_score(pris) ==
    LET black_score == 2 * pris["black"]
        white_score == 2 * pris["white"] + KomiHalves
    IN  [black |-> black_score, white |-> white_score]

CalculateScore ==
    /\ op' = "calculate_score"
    /\ result' = "Score"
    /\ score' = calculate_score(prisoners)
    /\ exit' = "none"
    /\ mover' = "none"
    /\ point' = NoPoint
    /\ UNCHANGED engine

\* Bookkeeping of a place_stone call: the turn each pushed snapshot was taken
\* at, and the calls that returned True.
PlaceNotes ==
    /\ score' = NoScore
    /\ snap_turns' = IF point' # NoPoint THEN Append(snap_turns, black_turn) ELSE snap_turns
    /\ commits' = IF result' = "True" THEN [commits EXCEPT ![mover'] = @ + 1] ELSE commits

\* run records whether the calls so far were placements that all returned
\* True ("placing"), such placements followed only by undos that each popped a
\* snapshot ("undoing"), or anything else ("mixed"). Queries do not count.
PlaceStone ==
    \E col \in Coords, row \in Coords :
        /\ Len(prev_boards) < MaxMoves
        /\ place_stone(col, row)
        /\ run' = IF run = "placing" /\ result' = "True" THEN "placing" ELSE "mixed"
        /\ PlaceNotes

UndoMove ==
    /\ undo_move
    /\ run' = IF run \in {"placing", "undoing"} /\ history # <<>> THEN "undoing" ELSE "mixed"
    /\ score' = NoScore
    /\ snap_turns' = IF history # <<>>
                     THEN SubSeq(snap_turns, 1, Len(snap_turns) - 1)
                     ELSE snap_turns
    /\ UNCHANGED commits

QueryValid ==
    /\ \E col \in Coords, row \in Coords : IsValidMove(col, row)
    /\ score' = NoScore
    /\ UNCHANGED <<run, snap_turns, commits>>

QueryScore ==
    /\ CalculateScore
    /\ UNCHANGED <<run, snap_turns, commits>>

Next == PlaceStone \/ UndoMove \/ QueryValid \/ QueryScore

Spec == Init /\ [][Next]_vars

\* Games without undo, to a greater depth: placement calls on in-bounds Empty
\* points only (a call on any other point changes nothing in the engine).
PlayStone ==
    \E col \in Idx, row \in Idx :
        /\ Len(prev_boards) < MaxPlayMoves
        /\ is_valid_move(board, col, row)
        /\ place_stone(col, row)
        /\ PlaceNotes
        /\ UNCHANGED run

NextPlay == PlayStone

SpecPlay == Init /\ [][NextPlay]_vars

\* The same games one move deeper: deep enough for White to capture in a ko,
\* for Black to be refused the recapture, and for Black to try again.
KoStone ==
    \E col \in Idx, row \in Idx :
        /\ Len(prev_boards) < MaxKoMoves
        /\ is_valid_move(board, col, row)
        /\ place_stone(col, row)
        /\ PlaceNotes
        /\ UNCHANGED run

NextKo == KoStone

SpecKo == Init /\ [][NextKo]_vars

TypeOK ==
    /\ board \in [Cells -> {EMPTY, BLACK, WHITE}]
    /\ black_turn \in BOOLEAN
    /\ \A c \in Colors : prisoners[c] \in Nat
    /\ result \in {"True", "False", "None", "Score"}
    /\ Len(snap_turns) = Len(history)
    /\ exit \in {"none", "invalid", "ko", "commit"}
    /\ run \in {"placing", "undoing", "mixed"}

----------------------------------------------------------------------------
(* Vocabulary of the properties.  After a validated place_stone call (exit is *)
(* "commit" or "ko") the snapshot on top of history is the engine's state as  *)
(* that call found it.                                                        *)

Validated == exit \in {"commit", "ko"}

Stone(color) == IF color = "black" THEN BLACK ELSE WHITE
Other(color) == IF color = "black" THEN "white" ELSE "black"

LastSnap == history[Len(history)]
PreBoard == LastSnap.board
PrePrisoners == LastSnap.prisoners

\* The board of the last validated call once its stone was written.
Placed == [PreBoard EXCEPT ![point] = Stone(mover)]

\* The opponent groups that stone left without liberties.
DeadGroups ==
    {g \in get_stone_groups(Placed, Other(mover)) : has_no_liberties(Placed, g)}

\* In a game without undo, snapshot i belongs to a committed move exactly when
\* the next position holds a stone on a point that was Empty in it (a
\* ko-rejected placement leaves no new stone).
PositionAfter(i) == IF i = Len(history) THEN board ELSE history[i + 1].board
CommittedAt(i) ==
    \E p \in Cells : history[i].board[p] = EMPTY /\ PositionAfter(i)[p] # EMPTY
CommittedBefore(i) == {j \in 1 .. (i - 1) : CommittedAt(j)}
Max(S) == CHOOSE x \in S : \A y \in S : y <= x

\* The last call was the recapture in a ko shape: the validated call before it
\* committed a move that captured exactly one stone of the mover, and this
\* call put a stone on the captured point such that, captures resolved, the
\* board was again the board before that capture.
KoRecapture ==
    /\ Validated
    /\ Len(history) >= 2
    /\ CommittedAt(Len(history) - 1)
    /\ LET before == history[Len(history) - 1]
       IN  /\ PrePrisoners[Other(mover)] = before.prisoners[Other(mover)] + 1
           /\ PrePrisoners[mover] = before.prisoners[mover]
           /\ before.board[point] = Stone(mover)
           /\ capture_stones(Placed, PrePrisoners, mover = "black").board = before.board

\* C1: in the ko shape, the immediate recapture at the captured point returns
\* False and does not flip the turn.
C1_KoRecaptureRejected ==
    KoRecapture => (result = "False" /\ black_turn = (mover = "black"))

\* Black's recapture has been rejected after White's capture of one stone.
BlackRecaptureRejected ==
    KoRecapture /\ mover = "black" /\ exit = "ko"

C1_Witness == BlackRecaptureRejected /\ black_turn

\* C2: after Black's ko-rejected recapture the board is cell for cell the
\* board as it stood right after White's capture.
C2_BoardAsAfterCapture ==
    BlackRecaptureRejected => board = PreBoard

\* C3: without undo, a committed move never leaves the board identical to the
\* board as it stood immediately before the previous committed move.
C3_NoRepeatTwoBack ==
    (exit = "commit" /\ CommittedBefore(Len(history)) # {})
        => board # history[Max(CommittedBefore(Len(history)))].board

\* C4: a placement that leaves exactly one opponent group, of size K, without
\* liberties empties its K cells and adds exactly K to the placer's prisoners.
C4_CaptureCorrect ==
    (Validated /\ Cardinality(DeadGroups) = 1)
        => \A g \in DeadGroups :
               /\ \A p \in g : board[p] = EMPTY
               /\ prisoners[mover] = PrePrisoners[mover] + Cardinality(g)

\* Black has captured a two-stone White group that held the corner (0,0).
C4_Witness ==
    /\ exit = "commit"
    /\ mover = "black"
    /\ Cardinality(DeadGroups) = 1
    /\ \E g \in DeadGroups : Cardinality(g) = 2 /\ <<0, 0>> \in g
    /\ board[<<0, 0>>] = EMPTY
    /\ prisoners["black"] = PrePrisoners["black"] + 2

\* C5: after N placements that all returned True and N undos, the board is
\* all Empty, both prisoner counts are zero and Black is to move.  While run is
\* "placing" or "undoing", N = Len(prev_boards) and Len(history) is N less the
\* undos made.
C5_UndoRestoresInitial ==
    (run \in {"placing", "undoing"} /\ Len(history) = 0)
        => (board = EmptyBoard /\ prisoners = NoPrisoners /\ black_turn)

\* Three committed moves have been undone one by one.
C5_Witness ==
    run = "undoing" /\ Len(history) = 0 /\ Len(prev_boards) = 3

\* C6: a place_stone call that returns True flips the turn, one that returns
\* False leaves it as it was.
C6_TurnFlipsIffCommitted ==
    [][op' = "place_stone"
          => /\ result' \in {"True", "False"}
             /\ result' = "True" => black_turn' = ~black_turn
             /\ result' = "False" => black_turn' = black_turn]_vars

\* A placement on an Empty point has been rejected by the ko check.
C6_Witness ==
    op = "place_stone" /\ result = "False" /\ exit = "ko"

\* The step returns what is_valid_move(col, row) computes on the current board.
Answers(col, row) == result' = PyBool(is_valid_move(board, col, row))

\* C7: is_valid_move returns True exactly for an in-bounds Empty cell, and
\* changes nothing in the engine.
C7_IsValidMoveExact ==
    [][op' = "is_valid_move"
          => /\ UNCHANGED engine
             /\ \A col \in Coords, row \in Coords :
                    Answers(col, row)
                        => result' = PyBool(InBounds(col, row) /\ board[<<col, row>>] = EMPTY)]_vars

\* The query has answered True on a board that holds stones of both colors.
C7_Witness ==
    /\ op = "is_valid_move"
    /\ result = "True"
    /\ \E p, q \in Cells : board[p] = BLACK /\ board[q] = WHITE

\* C8: place_stone on an out-of-bounds or occupied point returns False and
\* leaves board, turn, prisoners, history and prev_boards unchanged.
C8_InvalidPlacementNoEffect ==
    [][\A col \in Coords, row \in Coords :
          (/\ ~(InBounds(col, row) /\ board[<<col, row>>] = EMPTY)
           /\ place_stone(col, row))
              => (result' = "False" /\ UNCHANGED engine)]_vars

\* An invalid placement has been rejected on a board that holds stones.
C8_Witness ==
    exit = "invalid" /\ result = "False" /\ board # EmptyBoard /\ history # <<>>

\* The last call put a stone on a point all of whose in-bounds neighbours
\* held opponent stones, captured nothing, and the ko comparison did not match.
SelfCapture ==
    /\ Validated
    /\ \A q \in Adj[point] : PreBoard[q] = Stone(Other(mover))
    /\ DeadGroups = {}
    /\ ~(Len(prev_boards) >= 2 /\ Placed = prev_boards[Len(prev_boards) - 1])

\* C9: such a placement returns True, flips the turn, leaves the new stone on
\* the board without liberties and leaves both prisoner counts unchanged.
C9_SelfCapturePermitted ==
    SelfCapture
        => /\ result = "True"
           /\ black_turn = (mover # "black")
           /\ board[point] = Stone(mover)
           /\ has_no_liberties(board, {point})
           /\ prisoners = PrePrisoners

C9_Witness ==
    SelfCapture /\ exit = "commit" /\ has_no_liberties(board, {point})

\* C10: the length of history equals the number of committed moves not yet
\* undone (in a game without undo: the number of committed moves).
C10_HistoryCountsCommits ==
    Len(history) = Cardinality({i \in 1 .. Len(history) : CommittedAt(i)})

\* C11: undo_move on an empty history changes nothing and returns normally.
C11_UndoOnEmptyNoOp ==
    [][(op' = "undo_move" /\ history = <<>>)
          => (UNCHANGED engine /\ result' = "None")]_vars

\* undo_move has been called on an engine that never pushed a snapshot.
C11_Witness ==
    op = "undo_move" /\ prev_boards = <<>> /\ history = <<>>

\* C12: calculate_score returns black = Black's prisoners and white = White's
\* prisoners + 6.5 (in half points: twice the count, plus 13 for White), and
\* changes nothing in the engine.
C12_ScoreIsPrisonersPlusKomi ==
    [][op' = "calculate_score"
          => /\ score'["black"] = 2 * prisoners["black"]
             /\ score'["white"] = 2 * prisoners["white"] + 13
             /\ UNCHANGED engine]_vars

\* The score has been taken after Black captured a stone: 1 to 6.5.
C12_Witness ==
    op = "calculate_score" /\ score = [black |-> 2, white |-> 13] /\ board # EmptyBoard

\* C13: a ko rejection only sets the just-placed cell back to Empty: the stones
\* captured during the attempt stay removed, the placer keeps their count,
\* both pushed snapshots stay in place and the turn is not flipped.
C13_KoRollbackIsPartial ==
    [][exit' = "ko"
          => LET placed == [board EXCEPT ![point'] = Stone(mover')]
                 dead == UNION {g \in get_stone_groups(placed, Other(mover')) :
                                    has_no_liberties(placed, g)}
             IN  /\ board' = [p \in Cells |->
                                 IF p = point' \/ p \in dead THEN EMPTY ELSE board[p]]
                 /\ prisoners' = [prisoners EXCEPT ![mover'] = @ + Cardinality(dead)]
                 /\ history' = Append(history, [board |-> board, prisoners |-> prisoners])
                 /\ prev_boards' = Append(prev_boards, board)
                 /\ black_turn' = black_turn]_vars

\* A recapture has been refused and the stone it captured is gone all the same.
C13_Witness ==
    /\ exit = "ko"
    /\ prisoners[mover] = PrePrisoners[mover] + 1
    /\ \E p \in Cells : PreBoard[p] = Stone(Other(mover)) /\ board[p] = EMPTY

\* C14: an undo_move made with a non-empty history leaves board, prisoner
\* counts and turn as they were when the popped snapshot was taken.
C14_UndoRestoresSnapshotState ==
    [][(op' = "undo_move" /\ history # <<>>)
          => /\ board' = history[Len(history)].board
             /\ prisoners' = history[Len(history)].prisoners
             /\ black_turn' = snap_turns[Len(snap_turns)]]_vars

\* C15: a placement on an in-bounds Empty cell is refused only if the board it
\* produces repeats the board that stood before the previous committed move of
\* the current line of play (the snapshots still on history).
C15_RefusedOnlyOnRepeat ==
    exit = "ko"
        => /\ CommittedBefore(Len(history)) # {}
           /\ capture_stones(Placed, PrePrisoners, mover = "black").board
                  = history[Max(CommittedBefore(Len(history)))].board

\* The cells cleared by the capture resolution of the last validated call.
Cleared == UNION DeadGroups

\* C16: capture resolution clears exactly the cells of the opponent groups left
\* without liberties: no stone of the mover is removed, the opponent's count
\* is unchanged, the mover's count grows by the number of cleared cells, and
\* after a committed move no opponent group is without liberties.
C16_CapturesExactlyDeadOpponents ==
    Validated
        => /\ \A p \in Cells \ {point} :
                  board[p] = IF p \in Cleared THEN EMPTY ELSE PreBoard[p]
           /\ \A p \in Cleared : PreBoard[p] = Stone(Other(mover))
           /\ prisoners[Other(mover)] = PrePrisoners[Other(mover)]
           /\ prisoners[mover] = PrePrisoners[mover] + Cardinality(Cleared)
           /\ exit = "commit"
                  => /\ board[point] = Stone(mover)
                     /\ \A g \in get_stone_groups(board, Other(mover)) :
                            ~has_no_liberties(board, g)

\* One committed stone has captured two separate opponent groups.
C16_Witness ==
    exit = "commit" /\ Cardinality(DeadGroups) = 2 /\ Cardinality(Cleared) = 2

\* Orthogonal and diagonal contact of two cells.
Orthogonal(p, q) ==
    (p[1] - q[1]) * (p[1] - q[1]) + (p[2] - q[2]) * (p[2] - q[2]) = 1
Diagonal(p, q) ==
    (p[1] - q[1]) * (p[1] - q[1]) = 1 /\ (p[2] - q[2]) * (p[2] - q[2]) = 1

\* No part of g is cut off from the rest of g.
Connected(g) ==
    \A S \in SUBSET g :
        (S # {} /\ S # g) => \E p \in S, q \in g \ S : Orthogonal(p, q)

\* The groups of a color on b partition its stones into maximal orthogonally
\* connected sets.
PartitionsStones(b, color) ==
    LET groups == get_stone_groups(b, color)
    IN  /\ UNION groups = {p \in Cells : b[p] = Stone(color)}
        /\ \A g \in groups : g # {} /\ Connected(g)
        /\ \A g, h \in groups :
               g # h => /\ g \cap h = {}
                        /\ ~\E p \in g, q \in h : Orthogonal(p, q)

\* C17: on the board, and on the board capture resolution is run on, the
\* groups of each color are exactly its maximal 4-connected components.
C17_GroupsAreComponents ==
    \A color \in Colors :
        /\ PartitionsStones(board, color)
        /\ Validated => PartitionsStones(Placed, color)

\* A color has a group of two stones and another group touching it only
\* diagonally.
C17_Witness ==
    \E color \in Colors :
        \E g, h \in get_stone_groups(board, color) :
            /\ g # h
            /\ Cardinality(g) >= 2
            /\ \E p \in g, q \in h : Diagonal(p, q)

\* No cell of the board next to a stone of the group is Empty.
NoEmptyNeighbour(b, group) ==
    ~\E p \in group, q \in Cells : Orthogonal(p, q) /\ b[q] = EMPTY

\* C18: has_no_liberties holds of a group exactly when no on-board
\* orthogonal neighbour of its stones is Empty; cells off the board are skipped.
C18_NoLibertiesExact ==
    \A color \in Colors :
        /\ \A g \in get_stone_groups(board, color) :
               has_no_liberties(board, g) <=> NoEmptyNeighbour(board, g)
        /\ Validated
               => \A g \in get_stone_groups(Placed, color) :
                      has_no_liberties(Placed, g) <=> NoEmptyNeighbour(Placed, g)

\* A lone stone in the corner (0,0) was found without liberties, its two
\* on-board neighbours being occupied, and was captured.
C18_Witness ==
    /\ exit = "commit"
    /\ {<<0, 0>>} \in DeadGroups
    /\ has_no_liberties(Placed, {<<0, 0>>})
    /\ board[<<0, 0>>] = EMPTY

\* C19: in a game without undo, for each color the stones on the board plus
\* the prisoners taken by its opponent equal the placements of that color
\* that returned True.  Refused recaptures are among the calls; a call on an
\* invalid point returns False before any assignment, so it adds no state of
\* the engine or of commits to those of SpecPlay.
C19_StoneConservation ==
    \A c \in Colors :
        Cardinality({p \in Cells : board[p] = Stone(c)}) + prisoners[Other(c)] = commits[c]

\* A recapture has just been refused, with stones of both colors captured.
C19_Witness ==
    exit = "ko" /\ prisoners["black"] >= 1 /\ prisoners["white"] >= 1

\* C20: whatever placements (committed, refused or invalid) and undos were
\* made, the oldest snapshot on history is the initial position, and whenever
\* history is empty the board is all Empty and both prisoner counts are zero.
C20_OldestSnapshotIsInitial ==
    /\ history # <<>>
           => history[1].board = EmptyBoard /\ history[1].prisoners = NoPrisoners
    /\ history = <<>> => board = EmptyBoard /\ prisoners = NoPrisoners

\* History was emptied by undos after a refused placement had left its
\* snapshot on it: the board is Empty again with White to move.
C20_Witness ==
    /\ op = "undo_move"
    /\ history = <<>>
    /\ Len(prev_boards) = 3
    /\ ~black_turn
    /\ board = EmptyBoard

====
